---------------------------- MODULE Spec2Model ----------------------------
(***************************************************************************)
(* A model of the Roboflow Universe search agent                           *)
(* (src/roboflow_search_agent.py) and of the inference response            *)
(* normaliser (src/roboflow_inference.py).                                 *)
(*                                                                         *)
(*   Spec       one run of search_roboflow_models: connect_browser, the    *)
(*              search page, link collection, the crawl loop with          *)
(*              open_model_with_retry, and the finally block.              *)
(*   SpecQuery  the search-query construction of search_roboflow_models,   *)
(*              applied to every keywords input of a bounded set.          *)
(*   SpecInfer  the normaliser of run_inference, applied to every payload  *)
(*              of a bounded set.                                          *)
(*   SpecBBox   the same normaliser on one-entry spatial payloads whose    *)
(*              coordinates range over floating-point values.              *)
(*                                                                         *)
(* Every call into Playwright can raise; the model takes each such call as *)
(* a nondeterministic choice between returning and raising.                *)
(***************************************************************************)
EXTENDS Integers, Sequences, FiniteSets, TLC

VARIABLES
    pc,              \* position in search_roboflow_models / open_model_with_retry
    pwStarted,       \* sync_playwright().start() has returned
    launched,        \* chromium.launch() has returned (the browser process exists)
    browserOpen,     \* the browser process is running
    closeCalled,     \* browser.close() of the finally block was executed
    stopCalled,      \* playwright.stop() of the finally block was executed
    pending,         \* how the function is left after finally: "return" or "raise"
    outcome,         \* "running", "returned" or "raised"
    urls,            \* urls[:max_projects], the project URLs to crawl
    idx,             \* index in urls of the URL being crawled (0 before the loop)
    attempt,         \* attempt of open_model_with_retry, 1..RETRY_COUNT
    pagesOpen,       \* project pages (model_page) currently open
    gotos,           \* model_page.goto(url) calls made for the current URL
    sleeps,          \* time.sleep(RETRY_WAIT) calls made for the current URL
    failed,          \* attempts of the current URL that raised
    ret,             \* value open_model_with_retry returned for the current URL
    models,          \* the list search_roboflow_models builds and returns
    crawlLog,        \* one entry per finished open_model_with_retry call
    keywords,        \* the keywords argument, a sequence of words
    search_keywords, \* the query built from keywords, a sequence of words
    appended,        \* the task phrase the fallback branch appended, or NoPhrase
    qpc,             \* position of the query construction
    payload,         \* response.json() of run_inference
    result,          \* the value run_inference returned
    ipc,             \* position of the normaliser
    all_links,       \* the href of each element of query_selector_all("a[href]")
    project_urls,    \* the list urls built from all_links, before urls[:max_projects]
    prev_urls,       \* the list a first run of the link collection built
    lpc,             \* position of the link collection
    max_scrolls,     \* the max_scrolls argument of scroll_page
    last_height,     \* last_height of scroll_page
    measured,        \* the heights document.body.scrollHeight returned, in order
    spc,             \* position of scroll_page
    class_section,   \* the words of page_text[start_pos:start_pos+500]
    declared,        \* the N of 'CLASSES (N)' in page_text, or NoDeclaration
    classes,         \* the list classes of the record
    class_count,     \* class_count of the record, as a number
    cpc,             \* position of the class extraction
    page_url,        \* page.url when extract_model_details starts
    base_url,        \* base_url, the url of the record
    model_identifier,\* model_identifier of the record
    upc,             \* position of the identifier derivation
    location,        \* the view the project page shows: "base" when page.url is base_url
    reached_by,      \* how lines 249-289 looked for the model view
    tab,             \* code tabs of tab_selectors tried so far
    api_endpoint,    \* extract_api_endpoint found an endpoint
    return_nav,      \* what the return navigation of lines 341-346 did
    read_location,   \* the view shown when the descriptive fields were read
    epc,             \* position in extract_model_details
    output_json,     \* OUTPUT_JSON is "true"
    results,         \* the list search_roboflow_models returned to main
    stdout,          \* what main printed, in order
    mpc,             \* position in main
    exit_status,     \* how the process of main ended: "zero" or "nonzero"
    failure,         \* what made search_roboflow_models raise, or "none"
    title_els,       \* what the selectors h1, h2, [class*='title'] find on the page
    title,           \* the variable title of extract_model_details
    tpc,             \* position of the title extraction
    filter_page,     \* what each selector of has_model_selectors meets on the page
    fsel,            \* per run, the selector of has_model_selectors tried next
    clicks,          \* per run, the selectors whose element was clicked, in order
    fpc              \* per run, the position in the filter cascade

sessionVars == <<pc, pwStarted, launched, browserOpen, closeCalled, stopCalled,
                 pending, outcome, urls, idx, attempt, pagesOpen, gotos, sleeps,
                 failed, ret, models, crawlLog>>
queryVars == <<keywords, search_keywords, appended, qpc>>
inferVars == <<payload, result, ipc>>
linkVars == <<all_links, project_urls, prev_urls, lpc>>
scrollVars == <<max_scrolls, last_height, measured, spc>>
classVars == <<class_section, declared, classes, class_count, cpc>>
identVars == <<page_url, base_url, model_identifier, upc>>
titleVars == <<title_els, title, tpc>>
filterVars == <<filter_page, fsel, clicks, fpc>>
mainVars == <<output_json, results, stdout, mpc, exit_status, failure>>
extractVars == <<location, reached_by, tab, api_endpoint, return_nav,
                 read_location, epc>>
auxVars == <<linkVars, scrollVars, classVars, identVars, extractVars,
             mainVars, titleVars, filterVars>>
vars == <<sessionVars, queryVars, inferVars, auxVars>>

\* everything but one part of the model
butLinkVars == <<sessionVars, queryVars, inferVars, scrollVars, classVars,
                 identVars, extractVars, mainVars, titleVars, filterVars>>
butScrollVars == <<sessionVars, queryVars, inferVars, linkVars, classVars,
                   identVars, extractVars, mainVars, titleVars, filterVars>>
butClassVars == <<sessionVars, queryVars, inferVars, linkVars, scrollVars,
                  identVars, extractVars, mainVars, titleVars, filterVars>>
butIdentVars == <<sessionVars, queryVars, inferVars, linkVars, scrollVars,
                  classVars, extractVars, mainVars, titleVars, filterVars>>
butExtractVars == <<sessionVars, queryVars, inferVars, linkVars, scrollVars,
                    classVars, identVars, mainVars, titleVars, filterVars>>
butMainVars == <<sessionVars, queryVars, inferVars, linkVars, scrollVars,
                 classVars, identVars, extractVars, titleVars, filterVars>>
butTitleVars == <<sessionVars, queryVars, inferVars, linkVars, scrollVars,
                  classVars, identVars, extractVars, mainVars, filterVars>>
butFilterVars == <<sessionVars, queryVars, inferVars, linkVars, scrollVars,
                   classVars, identVars, extractVars, mainVars, titleVars>>

(***************************************************************************)
(* Program constants                                                       *)
(***************************************************************************)
RETRY_COUNT == 3

(***************************************************************************)
(* Bounds of the model                                                     *)
(***************************************************************************)
\* project URLs the results page can yield
NumUrls == 3
\* largest max_projects tried
MaxProjects == 3
\* free words of a keywords input (a formatted suffix may follow them)
MaxWords == 4
\* entries of a predictions array, of a predictions dictionary or of a bare list
MaxItems == 3
\* significant bits of a floating-point number of the model
MantBits == 5
\* largest coordinate of the floating-point payloads
MaxCoord == 136

\* open_model_with_retry returning None; a record is [url, attempt]: the data
\* extract_model_details read on that attempt of that URL
None == [url |-> 0, attempt |-> 0]
NoPhrase == <<>>

Min(a, b) == IF a < b THEN a ELSE b

\* s[:n]
Take(s, n) == SubSeq(s, 1, Min(n, Len(s)))

RECURSIVE Flatten(_)
\* ' '.join(terms) read as a sequence of words: each term is a sequence of words
Flatten(terms) ==
    IF terms = <<>> THEN <<>> ELSE Head(terms) \o Flatten(Tail(terms))

\* the sequences of length <= n of pairwise distinct elements of S
SeqsNoDup(S, n) ==
    {s \in UNION {[1..k -> S] : k \in 0..n} :
        \A i, j \in DOMAIN s : i # j => s[i] # s[j]}

(***************************************************************************)
(* Query construction (search_roboflow_models, lines 593-629).             *)
(* keywords is held as the sequence keywords.split() of lower-case words   *)
(* separated by single spaces, so that a test `p in keywords_lower` for a  *)
(* pattern p without a space is a test on some word, and for a two-word    *)
(* phrase a test on two adjacent words.                                    *)
(***************************************************************************)
\* the patterns the code tests with `in keywords_lower` that occur in word w
SubstringsOf(w) ==
    CASE w = "model"          -> {"model"}
      [] w = "segmentation"   -> {"segment", "segmentation"}
      [] w = "detection"      -> {"detect", "detection"}
      [] w = "classification" -> {"classif", "classification"}
      [] w = "keypoint"       -> {"keypoint"}
      [] OTHER                -> {}

\* pat in keywords_lower, pat a pattern without a space
InLower(kw, pat) == \E i \in 1..Len(kw) : pat \in SubstringsOf(kw[i])

\* 'a b' in keywords_lower
PhraseIn(kw, a, b) == \E i \in 1..(Len(kw) - 1) : kw[i] = a /\ kw[i + 1] = b

has_task_phrase(kw) ==
    \/ PhraseIn(kw, "instance", "segmentation")
    \/ PhraseIn(kw, "keypoint", "detection")
    \/ PhraseIn(kw, "object", "detection")
    \/ PhraseIn(kw, "image", "classification")

\* lines 620-627: the task phrase the fallback branch appends, or NoPhrase
TaskPhraseToAdd(kw) ==
    IF /\ ~PhraseIn(kw, "instance", "segmentation")
       /\ ~PhraseIn(kw, "keypoint", "detection")
    THEN IF InLower(kw, "segment") \/ InLower(kw, "segmentation")
              THEN <<"instance", "segmentation">>
         ELSE IF InLower(kw, "detect") \/ InLower(kw, "detection")
              THEN <<"object", "detection">>
         ELSE IF InLower(kw, "classif") \/ InLower(kw, "classification")
              THEN <<"image", "classification">>
         ELSE NoPhrase
    ELSE NoPhrase

\* lines 611-627: the list prioritized_keywords, each term a sequence of words
prioritized_keywords(kw) ==
    LET first2    == [i \in 1..Min(2, Len(kw)) |-> <<kw[i]>>]
        withModel == IF \E i \in DOMAIN first2 : first2[i] = <<"model">>
                     THEN first2 ELSE Append(first2, <<"model">>)
        phrase    == TaskPhraseToAdd(kw)
    IN  IF phrase = NoPhrase THEN withModel ELSE Append(withModel, phrase)

\* line 604: the keywords are used as they are
UseAsIs(kw) == has_task_phrase(kw) /\ InLower(kw, "model")

\* lines 604-629: search_keywords, as its sequence of words
BuildSearchKeywords(kw) ==
    IF UseAsIs(kw) THEN Take(kw, 5)
    ELSE Flatten(Take(prioritized_keywords(kw), 5))

\* the phrase appended by the construction (none in the use-as-is branch)
AppendedPhrase(kw) == IF UseAsIs(kw) THEN NoPhrase ELSE TaskPhraseToAdd(kw)

(***************************************************************************)
(* Floating-point arithmetic.  Python floats are IEEE-754 binary64: every  *)
(* operation returns the exact result rounded to 53 significant bits, ties *)
(* to even.  The model keeps that rule with MantBits significant bits and  *)
(* holds a number as an integer count of a fixed power-of-two quantum.     *)
(***************************************************************************)
Abs(n) == IF n < 0 THEN -n ELSE n

RECURSIVE BitLen(_)
BitLen(n) == IF n = 0 THEN 0 ELSE 1 + BitLen(n \div 2)

RECURSIVE Pow2(_)
Pow2(k) == IF k = 0 THEN 1 ELSE 2 * Pow2(k - 1)

\* the exact value n rounded to MantBits significant bits, ties to even
FRound(n) ==
    LET a == Abs(n)
        e == BitLen(a) - MantBits
    IN  IF e <= 0 THEN n
        ELSE LET unit == Pow2(e)
                 q    == a \div unit
                 r    == a % unit
                 up   == (2 * r > unit) \/ (2 * r = unit /\ q % 2 = 1)
                 m    == IF up THEN q + 1 ELSE q
             IN  IF n < 0 THEN -(m * unit) ELSE m * unit

FSub(a, b) == FRound(a - b)
FAdd(a, b) == FRound(a + b)

\* w / 2: exact in binary floating point; the inputs of the model are even
\* counts of the quantum, so the half is again a count of it
FHalf(w) == FRound(w \div 2)

(***************************************************************************)
(* The normaliser of run_inference (src/roboflow_inference.py, 130-267).   *)
(*                                                                         *)
(* A JSON object is a record with the set `has` of its keys and one field  *)
(* per key the code reads (a field whose key is absent holds a filler).    *)
(* A confidence is held in hundredths.                                     *)
(***************************************************************************)
\* an element of an array, or a value of the predictions dictionary: a string
\* s, or an object with the keys has
StrItem(s) ==
    [isdict |-> FALSE, str |-> s, has |-> {}, class |-> "", top |-> "",
     confidence |-> 0, score |-> 0, class_id |-> 0,
     x |-> 0, y |-> 0, width |-> 0, height |-> 0]

Obj(has, cls, top, conf, x, y, w, h) ==
    [isdict |-> TRUE, str |-> "", has |-> has,
     class |-> IF "class" \in has THEN cls ELSE "",
     top |-> IF "top" \in has THEN top ELSE "",
     confidence |-> IF "confidence" \in has THEN conf ELSE 0,
     score |-> 0, class_id |-> 0,
     x |-> IF "x" \in has THEN x ELSE 0,
     y |-> IF "y" \in has THEN y ELSE 0,
     width |-> IF "width" \in has THEN w ELSE 0,
     height |-> IF "height" \in has THEN h ELSE 0]

\* d.get(k, default)
Get(d, k, default) == IF k \in d.has THEN d[k] ELSE default

\* the value of result['predictions']: a dictionary (names[i] |-> items[i], in
\* key order), an array of items, or another JSON value
PredsDict(names, items) == [kind |-> "dict", names |-> names, items |-> items]
PredsList(items) == [kind |-> "list", names |-> <<>>, items |-> items]
PredsOther == [kind |-> "null", names |-> <<>>, items |-> <<>>]

\* response.json(): null, a number, a string, an array or an object
Payload(kind, str, items, has, top, cls, conf, preds) ==
    [kind |-> kind, str |-> str, items |-> items, has |-> has,
     top |-> IF "top" \in has THEN top ELSE "",
     class |-> IF "class" \in has THEN cls ELSE "",
     confidence |-> IF "confidence" \in has THEN conf ELSE 0,
     predictions |-> IF "predictions" \in has THEN preds ELSE PredsOther]

JsonNull == Payload("null", "", <<>>, {}, "", "", 0, PredsOther)
JsonNumber == Payload("number", "", <<>>, {}, "", "", 0, PredsOther)
JsonString(s) == Payload("str", s, <<>>, {}, "", "", 0, PredsOther)
JsonArray(items) == Payload("list", "", items, {}, "", "", 0, PredsOther)
JsonObject(has, top, cls, conf, preds) ==
    Payload("dict", "", <<>>, has, top, cls, conf, preds)

\* the keys the code tests that occur inside the string s
KeysInString(s) ==
    CASE s = "top"         -> {"top"}
      [] s = "predictions" -> {"predictions"}
      [] s = "class"       -> {"class"}
      [] OTHER             -> {}

\* `key in result` (lines 142, 149, 193, 202) where it does not raise:
\* a key of an object, an element of an array, a substring of a string
InResult(p, key) ==
    CASE p.kind = "dict" -> key \in p.has
      [] p.kind = "list" ->
            \E i \in DOMAIN p.items :
                ~p.items[i].isdict /\ p.items[i].str = key
      [] p.kind = "str"  -> key \in KeysInString(p.str)
      [] OTHER           -> FALSE

\* lines 142-199 raise: `'top' in result` on null or a number (TypeError),
\* result.get on an array or a string (AttributeError), result['predictions']
\* on an array or a string (TypeError)
NormalizerRaises(p) ==
    \/ p.kind \in {"null", "number"}
    \/ /\ p.kind \in {"list", "str"}
       /\ InResult(p, "top") \/ InResult(p, "predictions")
    \/ p.kind = "str" /\ InResult(p, "class")

\* a prediction of the classification branches: the keys of the dictionary
\* built and their values
NoBBox == [x |-> 0, y |-> 0, width |-> 0, height |-> 0,
           center_x |-> 0, center_y |-> 0]

ClsPrediction(keys, cls, conf, class_id) ==
    [keys |-> keys, class |-> cls, confidence |-> conf, score |-> conf,
     class_id |-> class_id, bbox |-> NoBBox]

\* pred_data.get('class_id') of an entry without the key: None
NoClassId == -1

\* lines 155-164: the list built from the predictions dictionary; a value that
\* is not an object is skipped
DictPredList(names, items) ==
    LET keep == {i \in DOMAIN items : items[i].isdict}
        RECURSIVE build(_)
        build(i) ==
            IF i > Len(items) THEN <<>>
            ELSE IF i \in keep
                 THEN <<ClsPrediction({"class", "confidence", "score", "class_id"},
                                      names[i],
                                      Get(items[i], "confidence", 0),
                                      Get(items[i], "class_id", NoClassId))>>
                      \o build(i + 1)
                 ELSE build(i + 1)
    IN  build(1)

RECURSIVE InsertUnstable(_, _)
\* an insertion that puts e before the entries of equal confidence
InsertUnstable(e, sorted) ==
    IF sorted = <<>> THEN <<e>>
    ELSE IF Head(sorted).confidence > e.confidence
         THEN <<Head(sorted)>> \o InsertUnstable(e, Tail(sorted))
         ELSE <<e>> \o sorted

RECURSIVE InsertDesc(_, _)
\* e put into the descending list sorted, after the entries of equal
\* confidence: list.sort is stable, with reverse=True too
InsertDesc(e, sorted) ==
    IF sorted = <<>> THEN <<e>>
    ELSE IF Head(sorted).confidence >= e.confidence
         THEN <<Head(sorted)>> \o InsertDesc(e, Tail(sorted))
         ELSE <<e>> \o sorted

RECURSIVE SortByConfidenceDesc(_)
\* line 166: pred_list.sort(key=lambda x: x['confidence'], reverse=True)
SortByConfidenceDesc(s) ==
    IF s = <<>> THEN <<>>
    ELSE InsertDesc(s[Len(s)], SortByConfidenceDesc(SubSeq(s, 1, Len(s) - 1)))

\* line 173: the first entry of the predictions array makes it classification
IsClassificationFirst(e) ==
    /\ e.isdict
    /\ \/ "top" \in e.has
       \/ "class" \in e.has /\ "x" \notin e.has /\ "bbox" \notin e.has

\* lines 176-180
ListKeyedPrediction(e) ==
    ClsPrediction({"class", "confidence", "score"},
                  Get(e, "top", Get(e, "class", "unknown")),
                  Get(e, "confidence", 0), NoClassId)

\* lines 188-192
BareListPrediction(e) ==
    ClsPrediction({"class", "confidence", "score"},
                  Get(e, "class", Get(e, "top", "unknown")),
                  Get(e, "confidence", Get(e, "score", 0)), NoClassId)

\* a variant of SpatialBranchRuns without the test len(predictions) == 0
SpatialBranchAlways(p, found) ==
    /\ InResult(p, "predictions")
    /\ p.predictions.kind = "list"

\* line 202: the spatial branch runs only when predictions is still empty
SpatialBranchRuns(p, found) ==
    /\ InResult(p, "predictions")
    /\ p.predictions.kind = "list"
    /\ Len(found) = 0

\* a top-left corner computed with the whole size instead of its half
TopLeftWholeSize(center, size) == FSub(center, size)

\* lines 215-216: x = center_x - (width / 2), y = center_y - (height / 2)
TopLeft(center, size) == FSub(center, FHalf(size))

\* lines 209-253: the prediction built from one entry of the array
SpatialPrediction(e) ==
    LET center_x == Get(e, "x", 0)
        center_y == Get(e, "y", 0)
        width    == Get(e, "width", 0)
        height   == Get(e, "height", 0)
    IN  [keys |-> {"class", "confidence", "bbox"}
                  \cup (e.has \cap {"points", "mask", "class_id", "detection_id"})
                  \cup (IF "keypoints" \in e.has
                        THEN {"keypoints", "x", "y", "width", "height"}
                        ELSE {}),
         class |-> Get(e, "class", "unknown"),
         confidence |-> Get(e, "confidence", 0),
         score |-> 0,
         class_id |-> Get(e, "class_id", NoClassId),
         bbox |-> [x |-> TopLeft(center_x, width),
                   y |-> TopLeft(center_y, height),
                   width |-> width, height |-> height,
                   center_x |-> center_x, center_y |-> center_y]]

\* the prediction the loop of the given branch builds from entry e
PredictionOf(branch, e) ==
    CASE branch = "list_keyed" -> ListKeyedPrediction(e)
      [] branch = "bare_list"  -> BareListPrediction(e)
      [] branch = "spatial"    -> SpatialPrediction(e)

RECURSIVE ListPredictions(_, _)
\* lines 174-180, 186-192 and 203-253: one prediction per entry that is an
\* object (`if isinstance(pred, dict)`), in the order of the array
ListPredictions(items, branch) ==
    IF items = <<>> THEN <<>>
    ELSE IF Head(items).isdict
         THEN <<PredictionOf(branch, Head(items))>>
              \o ListPredictions(Tail(items), branch)
         ELSE ListPredictions(Tail(items), branch)

\* lines 142-199: what the classification branches put into predictions
ClassificationPredictions(p) ==
    IF InResult(p, "top")
    THEN <<ClsPrediction({"class", "confidence", "score"},
                         Get(p, "top", "unknown"),
                         Get(p, "confidence", 0), NoClassId)>>
    ELSE IF InResult(p, "predictions")
    THEN IF p.predictions.kind = "dict"
         THEN SortByConfidenceDesc(
                  DictPredList(p.predictions.names, p.predictions.items))
         ELSE IF /\ p.predictions.kind = "list"
                 /\ Len(p.predictions.items) > 0
                 /\ IsClassificationFirst(p.predictions.items[1])
              THEN ListPredictions(p.predictions.items, "list_keyed")
              ELSE <<>>
    ELSE IF p.kind = "list"
    THEN ListPredictions(p.items, "bare_list")
    ELSE IF InResult(p, "class")
    THEN <<ClsPrediction({"class", "confidence", "score"},
                         Get(p, "class", "unknown"),
                         Get(p, "confidence", 0), NoClassId)>>
    ELSE <<>>

\* lines 202-253
SpatialPredictions(p, found) ==
    IF SpatialBranchRuns(p, found)
    THEN ListPredictions(p.predictions.items, "spatial")
    ELSE <<>>

\* the dictionary run_inference returns: lines 255-260, or lines 262-267 when
\* the normaliser raised
RunInference(p) ==
    IF NormalizerRaises(p)
    THEN [success |-> FALSE, keys |-> {"success", "error", "model_id"},
          predictions |-> <<>>]
    ELSE LET found == ClassificationPredictions(p)
         IN  [success |-> TRUE,
              keys |-> {"success", "predictions", "model_id", "endpoint_type"},
              predictions |-> found \o SpatialPredictions(p, found)]

NoPayload == JsonNull
NoResult == [success |-> FALSE, keys |-> {}, predictions |-> <<>>]

(***************************************************************************)
(* The search session: search_roboflow_models and what it calls.           *)
(***************************************************************************)
\* main, line 732: the default of SEARCH_KEYWORDS
DefaultKeywords == <<"basketball", "detection">>

\* an exception raised outside the try block of search_roboflow_models
\* (line 579): the function is left at once
RaiseOutsideTry ==
    /\ pc' = "done"
    /\ outcome' = "raised"

\* an exception raised inside the try block (lines 587-723): the finally
\* block runs, then the exception leaves the function
RaiseInsideTry ==
    /\ pc' = "finally"
    /\ pending' = "raise"

\* the loop written range(1, RETRY_COUNT): one attempt short
LastAttemptOffByOne(a) == a = RETRY_COUNT - 1

\* line 559, range(1, RETRY_COUNT + 1): attempt a is the last one
LastAttempt(a) == a = RETRY_COUNT

\* a handler that sleeps after every failed attempt, the last one included
SleepAfterEvery(a) == a <= RETRY_COUNT

\* line 571: time.sleep(RETRY_WAIT) follows failed attempt a
SleepAfter(a) == a < RETRY_COUNT

\* lines 565 and 570: the open project pages after model_page.close() returned
\* (closing a page that is already closed changes nothing)
AfterClose(n) == IF n > 0 THEN n - 1 ELSE 0

\* a handler that forgets model_page.close()
NoCloseInHandler(n) == n

\* line 570: the open project pages after the handler's model_page.close()
CloseInHandler(n) == AfterClose(n)

\* connect_browser, line 32: sync_playwright().start()
StartPlaywright ==
    /\ pc = "start"
    /\ \/ /\ pwStarted' = TRUE
          /\ pc' = "launch"
          /\ UNCHANGED outcome
       \/ /\ RaiseOutsideTry
          /\ UNCHANGED pwStarted
    /\ UNCHANGED <<launched, browserOpen, closeCalled, stopCalled, pending, urls,
                   idx, attempt, pagesOpen, gotos, sleeps, failed, ret, models,
                   crawlLog>>
    /\ UNCHANGED <<queryVars, inferVars, auxVars>>

\* connect_browser, line 47: playwright.chromium.launch(...)
LaunchBrowser ==
    /\ pc = "launch"
    /\ \/ /\ launched' = TRUE
          /\ browserOpen' = TRUE
          /\ pc' = "new_context"
          /\ UNCHANGED outcome
       \/ /\ RaiseOutsideTry
          /\ UNCHANGED <<launched, browserOpen>>
    /\ UNCHANGED <<pwStarted, closeCalled, stopCalled, pending, urls, idx,
                   attempt, pagesOpen, gotos, sleeps, failed, ret, models,
                   crawlLog>>
    /\ UNCHANGED <<queryVars, inferVars, auxVars>>

\* connect_browser, lines 48-51: browser.new_context(...)
NewContext ==
    /\ pc = "new_context"
    /\ \/ /\ pc' = "new_page"
          /\ UNCHANGED outcome
       \/ RaiseOutsideTry
    /\ UNCHANGED <<pwStarted, launched, browserOpen, closeCalled, stopCalled,
                   pending, urls, idx, attempt, pagesOpen, gotos, sleeps, failed,
                   ret, models, crawlLog>>
    /\ UNCHANGED <<queryVars, inferVars, auxVars>>

\* connect_browser, line 52: context.new_page(), the search page; then
\* search_roboflow_models enters its try block (line 587)
NewSearchPage ==
    /\ pc = "new_page"
    /\ \/ /\ pc' = "build_query"
          /\ UNCHANGED outcome
       \/ RaiseOutsideTry
    /\ UNCHANGED <<pwStarted, launched, browserOpen, closeCalled, stopCalled,
                   pending, urls, idx, attempt, pagesOpen, gotos, sleeps, failed,
                   ret, models, crawlLog>>
    /\ UNCHANGED <<queryVars, inferVars, auxVars>>

\* lines 593-632: the query is built; no call here can raise
BuildQuery ==
    /\ pc = "build_query"
    /\ search_keywords' = BuildSearchKeywords(keywords)
    /\ appended' = AppendedPhrase(keywords)
    /\ pc' = "goto_search"
    /\ UNCHANGED <<pwStarted, launched, browserOpen, closeCalled, stopCalled,
                   pending, outcome, urls, idx, attempt, pagesOpen, gotos, sleeps,
                   failed, ret, models, crawlLog>>
    /\ UNCHANGED <<keywords, qpc, inferVars, auxVars>>

\* lines 640-643: page.goto(search_url), page.wait_for_timeout(5000)
GotoSearch ==
    /\ pc = "goto_search"
    /\ \/ /\ pc' = "filter"
          /\ UNCHANGED pending
       \/ RaiseInsideTry
    /\ UNCHANGED <<pwStarted, launched, browserOpen, closeCalled, stopCalled,
                   outcome, urls, idx, attempt, pagesOpen, gotos, sleeps, failed,
                   ret, models, crawlLog>>
    /\ UNCHANGED <<queryVars, inferVars, auxVars>>

\* lines 646-671: the 'Has a Model' filter; every exception is swallowed
ApplyFilter ==
    /\ pc = "filter"
    /\ pc' = "wait_content"
    /\ UNCHANGED <<pwStarted, launched, browserOpen, closeCalled, stopCalled,
                   pending, outcome, urls, idx, attempt, pagesOpen, gotos, sleeps,
                   failed, ret, models, crawlLog>>
    /\ UNCHANGED <<queryVars, inferVars, auxVars>>

\* lines 674-677: page.wait_for_selector; a TimeoutError is swallowed, any
\* other exception leaves the try block
WaitForContent ==
    /\ pc = "wait_content"
    /\ \/ /\ pc' = "scroll"
          /\ UNCHANGED pending
       \/ RaiseInsideTry
    /\ UNCHANGED <<pwStarted, launched, browserOpen, closeCalled, stopCalled,
                   outcome, urls, idx, attempt, pagesOpen, gotos, sleeps, failed,
                   ret, models, crawlLog>>
    /\ UNCHANGED <<queryVars, inferVars, auxVars>>

\* line 682: scroll_page(page, max_scrolls=RESULT_SCROLLS)
ScrollResults ==
    /\ pc = "scroll"
    /\ \/ /\ pc' = "collect"
          /\ UNCHANGED pending
       \/ RaiseInsideTry
    /\ UNCHANGED <<pwStarted, launched, browserOpen, closeCalled, stopCalled,
                   outcome, urls, idx, attempt, pagesOpen, gotos, sleeps, failed,
                   ret, models, crawlLog>>
    /\ UNCHANGED <<queryVars, inferVars, auxVars>>

\* lines 685-709: page.query_selector_all("a[href]"), the deduplicated list of
\* project URLs, and urls = urls[:max_projects]
CollectLinks ==
    /\ pc = "collect"
    /\ \/ /\ \E discovered \in SeqsNoDup(1..NumUrls, NumUrls),
                max_projects \in 1..MaxProjects :
                urls' = Take(discovered, max_projects)
          /\ pc' = "crawl_next"
          /\ UNCHANGED pending
       \/ /\ RaiseInsideTry
          /\ UNCHANGED urls
    /\ UNCHANGED <<pwStarted, launched, browserOpen, closeCalled, stopCalled,
                   outcome, idx, attempt, pagesOpen, gotos, sleeps, failed, ret,
                   models, crawlLog>>
    /\ UNCHANGED <<queryVars, inferVars, auxVars>>

\* lines 714-717 and 723: the next URL is handed to open_model_with_retry, or
\* the loop is over and `return models` enters the finally block
CrawlNext ==
    /\ pc = "crawl_next"
    /\ \/ /\ idx < Len(urls)
          /\ idx' = idx + 1
          /\ attempt' = 1
          /\ gotos' = 0
          /\ sleeps' = 0
          /\ failed' = 0
          /\ ret' = None
          /\ pc' = "omr_new_page"
          /\ UNCHANGED pending
       \/ /\ idx = Len(urls)
          /\ pc' = "finally"
          /\ pending' = "return"
          /\ UNCHANGED <<idx, attempt, gotos, sleeps, failed, ret>>
    /\ UNCHANGED <<pwStarted, launched, browserOpen, closeCalled, stopCalled,
                   outcome, urls, pagesOpen, models, crawlLog>>
    /\ UNCHANGED <<queryVars, inferVars, auxVars>>

\* open_model_with_retry, line 560: context.new_page(), outside the try
OmrNewPage ==
    /\ pc = "omr_new_page"
    /\ \/ /\ pagesOpen' = pagesOpen + 1
          /\ pc' = "omr_visit"
          /\ UNCHANGED pending
       \/ /\ RaiseInsideTry
          /\ UNCHANGED pagesOpen
    /\ UNCHANGED <<pwStarted, launched, browserOpen, closeCalled, stopCalled,
                   outcome, urls, idx, attempt, gotos, sleeps, failed, ret,
                   models, crawlLog>>
    /\ UNCHANGED <<queryVars, inferVars, auxVars>>

\* open_model_with_retry, lines 561-566: goto(url), wait_for_timeout,
\* extract_model_details, close, return data.  The goto is called on every
\* attempt; it or any later call may raise, which enters the handler.
OmrVisit ==
    /\ pc = "omr_visit"
    /\ gotos' = gotos + 1
    /\ \/ /\ pagesOpen' = AfterClose(pagesOpen)
          /\ ret' = [url |-> urls[idx], attempt |-> attempt]
          /\ crawlLog' = Append(crawlLog, [url |-> urls[idx], attempt |-> attempt])
          /\ pc' = "omr_returned"
          /\ UNCHANGED failed
       \/ \* goto, wait_for_timeout or extract_model_details raised
          /\ failed' = failed + 1
          /\ pc' = "omr_except"
          /\ UNCHANGED <<pagesOpen, ret, crawlLog>>
       \/ \* model_page.close() of line 565 raised: the page may be gone or not
          /\ failed' = failed + 1
          /\ \E n \in {pagesOpen, AfterClose(pagesOpen)} : pagesOpen' = n
          /\ pc' = "omr_except"
          /\ UNCHANGED <<ret, crawlLog>>
    /\ UNCHANGED <<pwStarted, launched, browserOpen, closeCalled, stopCalled,
                   pending, outcome, urls, idx, attempt, sleeps, models>>
    /\ UNCHANGED <<queryVars, inferVars, auxVars>>

\* open_model_with_retry, lines 567-573: the handler closes the page, sleeps
\* if an attempt is left and loops, or falls out of the loop to return None
OmrExcept ==
    /\ pc = "omr_except"
    /\ \/ /\ pagesOpen' = CloseInHandler(pagesOpen)
          /\ IF LastAttempt(attempt)
             THEN /\ ret' = None
                  /\ crawlLog' = Append(crawlLog, [url |-> urls[idx], attempt |-> 0])
                  /\ pc' = "omr_returned"
                  /\ UNCHANGED attempt
             ELSE /\ attempt' = attempt + 1
                  /\ pc' = "omr_new_page"
                  /\ UNCHANGED <<ret, crawlLog>>
          /\ sleeps' = IF SleepAfter(attempt) THEN sleeps + 1 ELSE sleeps
          /\ UNCHANGED pending
       \/ \* model_page.close() of line 570 raised: the exception leaves
          \* open_model_with_retry and the try block of the caller
          /\ \E n \in {pagesOpen, CloseInHandler(pagesOpen)} : pagesOpen' = n
          /\ RaiseInsideTry
          /\ UNCHANGED <<attempt, ret, crawlLog, sleeps>>
    /\ UNCHANGED <<pwStarted, launched, browserOpen, closeCalled, stopCalled,
                   outcome, urls, idx, gotos, failed, models>>
    /\ UNCHANGED <<queryVars, inferVars, auxVars>>

\* lines 718-719: if model_data: models.append(model_data)
CrawlCollect ==
    /\ pc = "omr_returned"
    /\ models' = IF ret # None THEN Append(models, ret) ELSE models
    /\ pc' = "crawl_next"
    /\ UNCHANGED <<pwStarted, launched, browserOpen, closeCalled, stopCalled,
                   pending, outcome, urls, idx, attempt, pagesOpen, gotos, sleeps,
                   failed, ret, crawlLog>>
    /\ UNCHANGED <<queryVars, inferVars, auxVars>>

\* line 726: browser.close(); when it raises, line 727 is not reached
FinallyClose ==
    /\ pc = "finally"
    /\ closeCalled' = TRUE
    /\ \/ /\ browserOpen' = FALSE
          /\ pagesOpen' = 0
          /\ pc' = "finally_stop"
          /\ UNCHANGED outcome
       \/ /\ \E b \in BOOLEAN : browserOpen' = b
          /\ pagesOpen' = IF browserOpen' THEN pagesOpen ELSE 0
          /\ pc' = "done"
          /\ outcome' = "raised"
    /\ UNCHANGED <<pwStarted, launched, stopCalled, pending, urls, idx, attempt,
                   gotos, sleeps, failed, ret, models, crawlLog>>
    /\ UNCHANGED <<queryVars, inferVars, auxVars>>

\* line 727: playwright.stop(), then the pending return or exception
FinallyStop ==
    /\ pc = "finally_stop"
    /\ stopCalled' = TRUE
    /\ \/ /\ pwStarted' = FALSE
          /\ outcome' = IF pending = "return" THEN "returned" ELSE "raised"
       \/ /\ outcome' = "raised"
          /\ UNCHANGED pwStarted
    /\ pc' = "done"
    /\ UNCHANGED <<launched, browserOpen, closeCalled, pending, urls, idx,
                   attempt, pagesOpen, gotos, sleeps, failed, ret, models,
                   crawlLog>>
    /\ UNCHANGED <<queryVars, inferVars, auxVars>>

SessionInit ==
    /\ pc = "start"
    /\ pwStarted = FALSE
    /\ launched = FALSE
    /\ browserOpen = FALSE
    /\ closeCalled = FALSE
    /\ stopCalled = FALSE
    /\ pending = "none"
    /\ outcome = "running"
    /\ urls = <<>>
    /\ idx = 0
    /\ attempt = 0
    /\ pagesOpen = 0
    /\ gotos = 0
    /\ sleeps = 0
    /\ failed = 0
    /\ ret = None
    /\ models = <<>>
    /\ crawlLog = <<>>

\* the query construction and the normaliser are not running
QueryIdle ==
    /\ keywords = DefaultKeywords
    /\ search_keywords = <<>>
    /\ appended = NoPhrase
    /\ qpc = "idle"

InferIdle ==
    /\ payload = NoPayload
    /\ result = NoResult
    /\ ipc = "idle"

\* the link collection is not running
LinkIdle ==
    /\ all_links = <<>>
    /\ project_urls = <<>>
    /\ prev_urls = <<>>
    /\ lpc = "idle"

\* scroll_page is not running
ScrollIdle ==
    /\ max_scrolls = 0
    /\ last_height = 0
    /\ measured = <<>>
    /\ spc = "idle"

\* the class extraction is not running
ClassIdle ==
    /\ class_section = <<>>
    /\ declared = 0
    /\ classes = <<>>
    /\ class_count = 0
    /\ cpc = "idle"

\* the identifier derivation is not running
IdentIdle ==
    /\ page_url = <<>>
    /\ base_url = <<>>
    /\ model_identifier = <<>>
    /\ upc = "idle"

\* extract_model_details is not running
ExtractIdle ==
    /\ location = "base"
    /\ reached_by = "none"
    /\ tab = 0
    /\ api_endpoint = FALSE
    /\ return_nav = "none"
    /\ read_location = "none"
    /\ epc = "idle"

\* main is not running
MainIdle ==
    /\ output_json = FALSE
    /\ results = <<>>
    /\ stdout = <<>>
    /\ mpc = "idle"
    /\ exit_status = "running"
    /\ failure = "none"

\* the title extraction is not running
TitleIdle ==
    /\ title_els = <<>>
    /\ title = <<>>
    /\ tpc = "idle"

\* the filter cascade is not running
FilterIdle ==
    /\ filter_page = <<>>
    /\ fsel = <<>>
    /\ clicks = <<>>
    /\ fpc = "idle"

AuxIdle ==
    LinkIdle /\ ScrollIdle /\ ClassIdle /\ IdentIdle /\ ExtractIdle /\
    MainIdle /\ TitleIdle /\ FilterIdle

\* every part of the model but one is idle
IdleButLink ==
    SessionInit /\ QueryIdle /\ InferIdle /\ ScrollIdle /\ ClassIdle /\
    IdentIdle /\ ExtractIdle /\ MainIdle /\ TitleIdle /\ FilterIdle
IdleButScroll ==
    SessionInit /\ QueryIdle /\ InferIdle /\ LinkIdle /\ ClassIdle /\
    IdentIdle /\ ExtractIdle /\ MainIdle /\ TitleIdle /\ FilterIdle
IdleButClass ==
    SessionInit /\ QueryIdle /\ InferIdle /\ LinkIdle /\ ScrollIdle /\
    IdentIdle /\ ExtractIdle /\ MainIdle /\ TitleIdle /\ FilterIdle
IdleButIdent ==
    SessionInit /\ QueryIdle /\ InferIdle /\ LinkIdle /\ ScrollIdle /\
    ClassIdle /\ ExtractIdle /\ MainIdle /\ TitleIdle /\ FilterIdle
IdleButExtract ==
    SessionInit /\ QueryIdle /\ InferIdle /\ LinkIdle /\ ScrollIdle /\
    ClassIdle /\ IdentIdle /\ MainIdle /\ TitleIdle /\ FilterIdle
IdleButMain ==
    SessionInit /\ QueryIdle /\ InferIdle /\ LinkIdle /\ ScrollIdle /\
    ClassIdle /\ IdentIdle /\ ExtractIdle /\ TitleIdle /\ FilterIdle
IdleButTitle ==
    SessionInit /\ QueryIdle /\ InferIdle /\ LinkIdle /\ ScrollIdle /\
    ClassIdle /\ IdentIdle /\ ExtractIdle /\ MainIdle /\ FilterIdle
IdleButFilter ==
    SessionInit /\ QueryIdle /\ InferIdle /\ LinkIdle /\ ScrollIdle /\
    ClassIdle /\ IdentIdle /\ ExtractIdle /\ MainIdle /\ TitleIdle

Init == SessionInit /\ QueryIdle /\ InferIdle /\ AuxIdle

Next ==
    \/ StartPlaywright
    \/ LaunchBrowser
    \/ NewContext
    \/ NewSearchPage
    \/ BuildQuery
    \/ GotoSearch
    \/ ApplyFilter
    \/ WaitForContent
    \/ ScrollResults
    \/ CollectLinks
    \/ CrawlNext
    \/ OmrNewPage
    \/ OmrVisit
    \/ OmrExcept
    \/ CrawlCollect
    \/ FinallyClose
    \/ FinallyStop

Spec == Init /\ [][Next]_vars

(***************************************************************************)
(* Properties of the search session, checked under Spec.                   *)
(***************************************************************************)
\* C1: whenever open_model_with_retry returns, two failed attempts followed
\* by a successful third give the third attempt's record after exactly 3
\* goto(url) calls, and three failed attempts give None after exactly 3
\* goto(url) calls; None is returned in no other case.
C1_RetryOutcome ==
    pc = "omr_returned" =>
        /\ failed = 2 =>
              /\ ret = [url |-> urls[idx], attempt |-> 3]
              /\ gotos = 3
        /\ failed = 3 => (ret = None /\ gotos = 3)
        /\ ret = None => failed = 3

\* a session in which one URL succeeded on its third attempt and another
\* returned None
C1_Witness ==
    /\ \E i \in DOMAIN crawlLog : crawlLog[i].attempt = 3
    /\ \E j \in DOMAIN crawlLog : crawlLog[j].attempt = 0

\* the records of the finished open_model_with_retry calls that returned one
Succeeded == SelectSeq(crawlLog, LAMBDA e : e.attempt # 0)

\* C2: once the crawl loop has started, the try block is only left by
\* `return models`, with every URL of urls crawled and models holding exactly
\* the records of the URLs whose crawl succeeded, in discovery order: no
\* failure of a page visit aborts the batch.
C2_BadPageNeverAborts ==
    (pc \in {"finally", "finally_stop", "done"} /\ idx >= 1) =>
        /\ pending = "return"
        /\ Len(crawlLog) = Len(urls)
        /\ \A i \in DOMAIN crawlLog : crawlLog[i].url = urls[i]
        /\ models = Succeeded

\* C3: when search_roboflow_models is left after the browser process was
\* launched, browser.close() and playwright.stop() have both been executed.
C3_ClosedOnEveryExit ==
    (pc = "done" /\ launched) => (closeCalled /\ stopCalled)

\* C4: at most one project page is open at any time; the page of an attempt
\* is fresh, and it is closed before the next attempt opens its page and
\* before open_model_with_retry returns.
C4_OnePageAtATime ==
    /\ pagesOpen <= 1
    /\ pc = "omr_visit" => pagesOpen = 1
    /\ pc \in {"omr_new_page", "omr_returned", "crawl_next"} => pagesOpen = 0

\* a second attempt is about to open its page after a first one raised, in a
\* session in which an earlier URL was crawled with success
C4_Witness ==
    /\ pc = "omr_new_page"
    /\ attempt = 2
    /\ failed = 1
    /\ \E i \in DOMAIN crawlLog : crawlLog[i].attempt # 0

(***************************************************************************)
(* SpecQuery: the query construction on every keywords input of a bounded  *)
(* set: up to MaxWords words of Vocab, then possibly a formatted suffix    *)
(* "model <task phrase>" as the TypeScript caller produces it.             *)
(***************************************************************************)
Vocab == {"soccer", "ball", "model", "object", "detection", "instance",
          "segmentation", "keypoint", "classification"}

Suffixes == {<<>>,
             <<"model", "object", "detection">>,
             <<"model", "instance", "segmentation">>,
             <<"model", "image", "classification">>,
             <<"object", "detection", "model">>}

KeywordInputs ==
    {h \o t : h \in UNION {[1..k -> Vocab] : k \in 0..MaxWords}, t \in Suffixes}

\* the session is not running
SessionIdle == SessionInit

InitQuery ==
    /\ SessionIdle
    /\ InferIdle
    /\ AuxIdle
    /\ keywords \in KeywordInputs
    /\ search_keywords = <<>>
    /\ appended = NoPhrase
    /\ qpc = "input"

\* lines 593-629 applied to keywords
QueryBuild ==
    /\ qpc = "input"
    /\ search_keywords' = BuildSearchKeywords(keywords)
    /\ appended' = AppendedPhrase(keywords)
    /\ qpc' = "built"
    /\ UNCHANGED <<keywords, sessionVars, inferVars, auxVars>>

NextQuery == QueryBuild

SpecQuery == InitQuery /\ [][NextQuery]_vars

(***************************************************************************)
(* Properties of the query construction, checked under SpecQuery.          *)
(***************************************************************************)
TaskPhrases == {<<"keypoint", "detection">>, <<"instance", "segmentation">>,
                <<"object", "detection">>, <<"image", "classification">>}

\* the occurrences of task-type phrases in query q
PhraseCount(q) ==
    Cardinality({i \in 1..(Len(q) - 1) : <<q[i], q[i + 1]>> \in TaskPhrases})

\* the task types keywords kw hint at
Hinted(kw) ==
    {t \in {"keypoint", "segment", "detect", "classif"} : InLower(kw, t)}

\* the phrase of the highest-priority type among the hinted types H
TopPhrase(H) ==
    IF "keypoint" \in H THEN <<"keypoint", "detection">>
    ELSE IF "segment" \in H THEN <<"instance", "segmentation">>
    ELSE IF "detect" \in H THEN <<"object", "detection">>
    ELSE <<"image", "classification">>

\* C9: for keywords that mention a task type, the built query has at most 5
\* terms and holds exactly one occurrence of a task-type phrase.
C9_OneTaskPhrase ==
    (qpc = "built" /\ Hinted(keywords) # {}) =>
        /\ Len(search_keywords) <= 5
        /\ PhraseCount(search_keywords) = 1

\* C10: in the fallback branch, for keywords that hint at task types, the
\* phrase appended is the one of the highest-priority hinted type (keypoint >
\* segmentation > detection > classification); nothing is appended only when
\* the query already holds that phrase.
C10_PriorityOfPhrase ==
    (qpc = "built" /\ ~UseAsIs(keywords) /\ Hinted(keywords) # {}) =>
        LET top == TopPhrase(Hinted(keywords))
        IN  \/ appended = top
            \/ /\ appended = NoPhrase
               /\ PhraseIn(search_keywords, top[1], top[2])

\* C11: the built query holds the word 'model' as one of its terms, in the
\* use-as-is branch and in the fallback branch.
C11_ModelTermPresent ==
    (qpc = "built") => \E i \in 1..Len(search_keywords) : search_keywords[i] = "model"

\* words that name the subject of the search: neither 'model' nor a task word
DomainWords == {"soccer", "ball"}

\* the bare task tokens and the phrase of each
TaskTokens == {"detection", "segmentation", "classification", "keypoint"}

PhraseOfToken(t) ==
    CASE t = "keypoint"       -> <<"keypoint", "detection">>
      [] t = "segmentation"   -> <<"instance", "segmentation">>
      [] t = "detection"      -> <<"object", "detection">>
      [] t = "classification" -> <<"image", "classification">>

\* kw is one or more domain words followed by one bare task token
DomainThenToken(kw) ==
    /\ Len(kw) >= 2
    /\ \A i \in 1..(Len(kw) - 1) : kw[i] \in DomainWords
    /\ kw[Len(kw)] \in TaskTokens

\* C12: for domain words followed by a bare task token the built query is the
\* domain words, then 'model', then the phrase of the token.
C12_DomainModelPhrase ==
    (qpc = "built" /\ DomainThenToken(keywords)) =>
        search_keywords = SubSeq(keywords, 1, Len(keywords) - 1) \o <<"model">>
                              \o PhraseOfToken(keywords[Len(keywords)])

\* the example of C12: 'soccer ball detection' gives
\* 'soccer ball model object detection' (holds)
C12_Example ==
    (qpc = "built" /\ keywords = <<"soccer", "ball", "detection">>) =>
        search_keywords = <<"soccer", "ball", "model", "object", "detection">>

(***************************************************************************)
(* SpecInfer: the normaliser on every payload of a bounded set.            *)
(***************************************************************************)
\* the entries an array holds in the payloads tried
Spatial == {"x", "y", "width", "height"}

ArrayEntries ==
    {StrItem("top"), StrItem("predictions"),
     Obj({}, "", "", 0, 0, 0, 0, 0),
     Obj({"class", "confidence"}, "cat", "", 92, 0, 0, 0, 0),
     Obj({"class", "confidence"}, "dog", "", 50, 0, 0, 0, 0),
     Obj({"class"}, "dog", "", 0, 0, 0, 0, 0),
     Obj({"top", "confidence"}, "", "cat", 92, 0, 0, 0, 0),
     Obj({"confidence"}, "", "", 50, 0, 0, 0, 0),
     Obj({"class", "confidence"} \cup Spatial, "ball", "", 80, 100, 50, 40, 20),
     Obj({"class", "confidence", "keypoints"} \cup Spatial, "dog", "", 50,
         20, 20, 8, 8),
     Obj(Spatial, "", "", 0, 50, 100, 20, 40),
     Obj({"class", "bbox"}, "cat", "", 0, 0, 0, 0, 0)}

\* the values a predictions dictionary holds in the payloads tried
DictValues ==
    {StrItem("top"),
     Obj({}, "", "", 0, 0, 0, 0, 0),
     Obj({"confidence"}, "", "", 50, 0, 0, 0, 0),
     Obj({"confidence"}, "", "", 92, 0, 0, 0, 0),
     Obj({"confidence", "class_id"}, "", "", 92, 0, 0, 0, 0)}

ClassNames == {"cat", "dog", "bird"}

ArraysTried == UNION {[1..k -> ArrayEntries] : k \in 0..MaxItems}

PredictionValues ==
    {PredsOther}
    \cup {PredsList(items) : items \in ArraysTried}
    \cup {PredsDict(names, items) :
             names \in SeqsNoDup(ClassNames, MaxItems),
             items \in UNION {[1..k -> DictValues] : k \in 0..MaxItems}}

\* the keys of an object payload besides 'predictions'
ObjectKeySets ==
    {{}, {"top"}, {"top", "confidence"}, {"class"}, {"class", "confidence"},
     {"time"}}

Payloads ==
    {JsonNull, JsonNumber, JsonString("top"), JsonString("ok")}
    \cup {JsonArray(items) : items \in ArraysTried}
    \cup {JsonObject(ks, "cat", "dog", 92, PredsOther) : ks \in ObjectKeySets}
    \cup {JsonObject(ks \cup {"predictions"}, "cat", "dog", 92, pv) :
             ks \in ObjectKeySets,
             pv \in {v \in PredictionValues :
                        v.kind = "dict" => Len(v.names) = Len(v.items)}}

InitInfer ==
    /\ SessionIdle
    /\ QueryIdle
    /\ AuxIdle
    /\ payload \in Payloads
    /\ result = NoResult
    /\ ipc = "response"

\* lines 130-267 applied to the parsed response
Normalize ==
    /\ ipc = "response"
    /\ result' = RunInference(payload)
    /\ ipc' = "returned"
    /\ UNCHANGED <<payload, sessionVars, queryVars, auxVars>>

NextInfer == Normalize

SpecInfer == InitInfer /\ [][NextInfer]_vars

(***************************************************************************)
(* SpecBBox: the normaliser on payloads {"predictions": [entry]} whose     *)
(* entry holds any subset of class, x, y, width, height, over the          *)
(* floating-point values up to MaxCoord (a size is an even count of the    *)
(* quantum).                                                               *)
(***************************************************************************)
FloatVals == {n \in 0..MaxCoord : FRound(n) = n}
Sizes == {n \in FloatVals : n % 2 = 0}

SpatialEntries ==
    {Obj({"confidence"} \cup has, "ball", "", 80, x, y, w, h) :
        has \in SUBSET (Spatial \cup {"class"}),
        x \in FloatVals, w \in Sizes, y \in {2, 50}, h \in {20, 136}}

InitBBox ==
    /\ SessionIdle
    /\ QueryIdle
    /\ AuxIdle
    /\ \E e \in SpatialEntries :
          payload = JsonObject({"predictions"}, "", "", 0, PredsList(<<e>>))
    /\ result = NoResult
    /\ ipc = "response"

SpecBBox == InitBBox /\ [][NextInfer]_vars

(***************************************************************************)
(* Properties of the normaliser, checked under SpecInfer and SpecBBox.     *)
(***************************************************************************)
\* every prediction of P carries a bbox, or none does
Homogeneous(P) ==
    \/ \A i \in DOMAIN P : "bbox" \in P[i].keys
    \/ \A i \in DOMAIN P : "bbox" \notin P[i].keys

\* payload p has none of the shapes the normaliser recognises: it is no
\* array, and no object with a key 'top' or 'class' or with an array or a
\* dictionary under 'predictions'
NoBranchMatches(p) ==
    \/ p.kind \in {"null", "number", "str"}
    \/ /\ p.kind = "dict"
       /\ "top" \notin p.has
       /\ "class" \notin p.has
       /\ "predictions" \in p.has => p.predictions.kind = "null"

\* run_inference returned a successful result with an empty predictions list
EmptySuccess(r) ==
    /\ r.success
    /\ "predictions" \in r.keys
    /\ r.predictions = <<>>

\* C5: for every payload the returned predictions are homogeneous (all with a
\* bbox or all without: at most one kind of branch contributed), and a
\* payload matching no branch yields an empty predictions list.
C5_OneBranchPerPayload ==
    ipc = "returned" =>
        /\ Homogeneous(result.predictions)
        /\ NoBranchMatches(payload) => EmptySuccess(result)

\* the part of C5 that concerns the branches alone: the classification
\* branches and the spatial branch never both contribute
BranchesExclusive ==
    ipc = "returned" => Homogeneous(result.predictions)

\* the payload holds a dictionary under 'predictions'
DictPayload(p) ==
    /\ p.kind = "dict"
    /\ "predictions" \in p.has
    /\ p.predictions.kind = "dict"

\* the position of class name c among the keys of the predictions dictionary
KeyIndex(p, c) ==
    CHOOSE i \in DOMAIN p.predictions.names : p.predictions.names[i] = c

\* P is ordered by confidence descending, ties in the key order of payload p
SortedStable(p, P) ==
    \A i, j \in DOMAIN P :
        i < j =>
            /\ P[i].confidence >= P[j].confidence
            /\ P[i].confidence = P[j].confidence =>
                  KeyIndex(p, P[i].class) < KeyIndex(p, P[j].class)

\* the entries of the predictions dictionary whose value is an object
ObjectEntries(p) ==
    {i \in DOMAIN p.predictions.items : p.predictions.items[i].isdict}

Unrecognized(p) ==
    \/ p.kind \in {"null", "number"}
    \/ p.kind = "dict" /\ p.has \subseteq {"time"}
    \/ p.kind = "list" /\ \A i \in DOMAIN p.items : ~p.items[i].isdict

\* C7: on every empty or unrecognised payload run_inference returns a
\* successful result whose predictions list is empty.
C7_UnrecognizedGivesEmpty ==
    (ipc = "returned" /\ Unrecognized(payload)) =>
        /\ result.success
        /\ "predictions" \in result.keys
        /\ Len(result.predictions) = 0

\* the raw entry of a SpecBBox payload
RawEntry == payload.predictions.items[1]

\* b.center_x, b.center_y, b.width, b.height are the raw values of entry e,
\* 0 when absent
KeepsRaw(b, e) ==
    /\ b.center_x = Get(e, "x", 0)
    /\ b.center_y = Get(e, "y", 0)
    /\ b.width = Get(e, "width", 0)
    /\ b.height = Get(e, "height", 0)

\* x + width/2 == center_x and y + height/2 == center_y, evaluated in
\* floating point
RoundTrips(b) ==
    /\ FAdd(b.x, FHalf(b.width)) = b.center_x
    /\ FAdd(b.y, FHalf(b.height)) = b.center_y

\* center - size/2 needs no rounding
ExactDifference(center, size) ==
    FRound(center - FHalf(size)) = center - FHalf(size)

\* C8 as stated: every spatial prediction keeps the raw centre and size and
\* satisfies x + width/2 == center_x and y + height/2 == center_y.
C8_CenterRoundTrip ==
    ipc = "returned" =>
        \A i \in DOMAIN result.predictions :
            "bbox" \in result.predictions[i].keys =>
                LET b == result.predictions[i].bbox
                IN  KeepsRaw(b, RawEntry) /\ RoundTrips(b)

\* C8 as amended: every spatial prediction keeps the raw centre and size
\* (0 when absent), x and y are the floating-point differences
\* center - size/2, and on each axis the round trip is exact whenever that
\* difference needs no rounding (as for x=100, y=50, width=40, height=20).
C8_CenterRoundTripWhenExact ==
    ipc = "returned" =>
        \A i \in DOMAIN result.predictions :
            "bbox" \in result.predictions[i].keys =>
                LET b == result.predictions[i].bbox
                IN  /\ KeepsRaw(b, RawEntry)
                    /\ ExactDifference(b.center_x, b.width) =>
                          FAdd(b.x, FHalf(b.width)) = b.center_x
                    /\ ExactDifference(b.center_y, b.height) =>
                          FAdd(b.y, FHalf(b.height)) = b.center_y
                    /\ (b.center_x = 100 /\ b.width = 40) => b.x = 80
                    /\ (b.center_y = 50 /\ b.height = 20) => b.y = 40

\* the entry x=100, y=50, width=40, height=20 was normalised
C8_Witness ==
    /\ ipc = "returned"
    /\ Len(result.predictions) = 1
    /\ "bbox" \in result.predictions[1].keys
    /\ result.predictions[1].bbox =
          [x |-> 80, y |-> 40, width |-> 40, height |-> 20,
           center_x |-> 100, center_y |-> 50]

\* C20: for every payload object with the key 'top', whatever its other keys,
\* run_inference returns exactly one prediction, whose class is the value of
\* 'top' and whose confidence is the payload's 'confidence' (0.0 if absent),
\* without a bbox.
C20_TopHasPriority ==
    (ipc = "returned" /\ payload.kind = "dict" /\ "top" \in payload.has) =>
        /\ result.success
        /\ Len(result.predictions) = 1
        /\ result.predictions[1].class = payload.top
        /\ result.predictions[1].confidence =
               (IF "confidence" \in payload.has THEN payload.confidence ELSE 0)
        /\ "bbox" \notin result.predictions[1].keys

C20_Witness ==
    /\ ipc = "returned"
    /\ payload.kind = "dict"
    /\ {"top", "confidence", "predictions"} \subseteq payload.has
    /\ payload.predictions.kind = "list"
    /\ \E i \in 1..Len(payload.predictions.items) :
           "x" \in payload.predictions.items[i].has
    /\ Len(result.predictions) = 1
    /\ result.predictions[1].class = "cat"
    /\ result.predictions[1].confidence = 92

(***************************************************************************)
(* Link collection (search_roboflow_models, lines 685-707).                *)
(* An href is held by its form and by the pieces of the text that follows  *)
(* the last occurrence of 'universe.roboflow.com' in its absolute form,    *)
(* split at '/':                                                           *)
(*   "none"         the attribute is missing (get_attribute returns None)  *)
(*   "empty"        href=""                                                *)
(*   "raises"       link.get_attribute raises                              *)
(*   "abs_universe" https://universe.roboflow.com/<path>                   *)
(*   "abs_other"    https://<another host>/<path>                          *)
(*   "abs_mention"  https://<another host>/share?u=https://universe.       *)
(*                  roboflow.com/<path>                                    *)
(*   "rel"          /<path>, relative to the site                          *)
(*   "proto_rel"    //<another host>/<path>, protocol-relative             *)
(***************************************************************************)
\* links on the results page
MaxLinks == 3

Href(form, path) == [form |-> form, path |-> path]

\* line 692: the link is skipped before any path is computed
HrefSkipped(h) ==
    \/ h.form \in {"none", "empty"}       \* not href
    \/ h.form = "abs_other"               \* the host name is not in the href

\* lines 695-698: href.split("universe.roboflow.com")[-1].split("/")
PathPieces(h) ==
    IF h.form = "proto_rel"
    THEN <<"", "", "fonts.example.com">> \o h.path
    ELSE <<"">> \o h.path

\* line 699: [s for s in path.split("/") if s]
Segments(pieces) == SelectSeq(pieces, LAMBDA x : x # "")

NotProjects == {"search", "browse", "docs", "api"}

\* line 701
IsProjectPath(segments) ==
    Len(segments) >= 2 /\ segments[1] \notin NotProjects

\* a variant of ProjectPath that swaps the two segments
ProjectPathSwapped(segments) == <<segments[2], segments[1]>>

\* line 702: project_path, held as the pair of its segments
ProjectPath(segments) == <<segments[1], segments[2]>>

\* one iteration of the loop of lines 689-707 on the list urls built so far;
\* seen_paths is the set of the elements of urls
VisitLink(h, found) ==
    IF h.form = "raises" \/ HrefSkipped(h) THEN found
    ELSE LET segments == Segments(PathPieces(h))
         IN  IF ~IsProjectPath(segments) THEN found
             ELSE LET project_path == ProjectPath(segments)
                  IN  IF \E i \in 1..Len(found) : found[i] = project_path
                      THEN found
                      ELSE Append(found, project_path)

RECURSIVE CollectFrom(_, _)
CollectFrom(links, found) ==
    IF links = <<>> THEN found
    ELSE CollectFrom(Tail(links), VisitLink(Head(links), found))

\* lines 685-707: the list urls, each f"{BASE_URL}{project_path}" held by its
\* two segments
CollectUrls(links) == CollectFrom(links, <<>>)

\* the element a[href] whose href is one of the URLs of the list urls
LinkOfUrl(u) == Href("abs_universe", u)

\* the hrefs tried
Hrefs ==
    {Href("none", <<>>), Href("empty", <<>>), Href("raises", <<"ws", "proj">>),
     Href("abs_universe", <<"ws", "proj">>),
     Href("abs_universe", <<"ws", "proj", "model", "1">>),
     Href("abs_universe", <<"search", "ws">>),
     Href("abs_universe", <<"ws">>),
     Href("rel", <<"ws", "proj">>),
     Href("rel", <<"ws", "", "p2">>),
     Href("rel", <<"browse", "ws">>),
     Href("rel", <<>>),
     Href("rel", <<"w2", "proj">>),
     Href("abs_other", <<"ws", "proj">>),
     Href("abs_mention", <<"w3", "proj">>),
     Href("proto_rel", <<"css", "x">>)}

InitLinks ==
    /\ IdleButLink
    /\ all_links \in UNION {[1..k -> Hrefs] : k \in 0..MaxLinks}
    /\ project_urls = <<>>
    /\ prev_urls = <<>>
    /\ lpc = "links"

\* lines 685-707 on the links of the page
ExtractUrls ==
    /\ lpc = "links"
    /\ project_urls' = CollectUrls(all_links)
    /\ lpc' = "collected"
    /\ UNCHANGED <<all_links, prev_urls, butLinkVars>>

\* lines 685-707 once more on the same links
ExtractSame ==
    /\ lpc = "collected"
    /\ prev_urls' = project_urls
    /\ project_urls' = CollectUrls(all_links)
    /\ lpc' = "again_same"
    /\ UNCHANGED <<all_links, butLinkVars>>

\* lines 685-707 on a page whose links are the URLs of the list built before
ExtractFromOutput ==
    /\ lpc = "collected"
    /\ prev_urls' = project_urls
    /\ all_links' = [i \in 1..Len(project_urls) |-> LinkOfUrl(project_urls[i])]
    /\ project_urls' = CollectUrls(all_links')
    /\ lpc' = "again_output"
    /\ UNCHANGED <<butLinkVars>>

NextLinks == ExtractUrls \/ ExtractSame \/ ExtractFromOutput

SpecLinks == InitLinks /\ [][NextLinks]_vars

(***************************************************************************)
(* Properties of the link collection, checked under SpecLinks.             *)
(***************************************************************************)
\* the link points into the site: an absolute URL of the host, or a path
\* relative to the site
Internal(h) == h.form \in {"abs_universe", "rel"}

\* the links whose path names a project: at least two segments, the first one
\* not search/browse/docs/api
ProjectLinks(links) ==
    {i \in 1..Len(links) :
        LET segments == Segments(links[i].path)
        IN  /\ Internal(links[i])
            /\ Len(segments) >= 2
            /\ segments[1] \notin NotProjects}

CanonicalPath(h) == LET segments == Segments(h.path) IN <<segments[1], segments[2]>>

\* the first link of the sequence with the canonical path p
FirstOccurrence(links, p) ==
    CHOOSE i \in ProjectLinks(links) :
        /\ CanonicalPath(links[i]) = p
        /\ \A j \in ProjectLinks(links) : CanonicalPath(links[j]) = p => i <= j

NoDuplicates(s) == \A i, j \in 1..Len(s) : i # j => s[i] # s[j]

\* C13: the URL list holds each canonical path at most once, holds exactly the
\* canonical paths of the internal links that name a project, and orders them
\* by the first occurrence of each path among the links.
C13_DedupFirstSeen ==
    (lpc = "collected") =>
        /\ NoDuplicates(project_urls)
        /\ {project_urls[i] : i \in 1..Len(project_urls)} =
               {CanonicalPath(all_links[i]) : i \in ProjectLinks(all_links)}
        /\ \A i, j \in 1..Len(project_urls) :
               i < j => FirstOccurrence(all_links, project_urls[i])
                            < FirstOccurrence(all_links, project_urls[j])

\* C14: the link collection run again on the same links, or on the links of
\* its own output, builds the list it built before.
C14_DedupIdempotent ==
    (lpc \in {"again_same", "again_output"}) => project_urls = prev_urls

C14_Witness ==
    /\ lpc = "again_output"
    /\ Len(prev_urls) >= 2
    /\ Len(all_links) >= 2
    /\ project_urls = prev_urls

(***************************************************************************)
(* scroll_page (lines 225-234).  Each iteration scrolls by one window      *)
(* height and reads document.body.scrollHeight; the page answers with any  *)
(* height, and either page.evaluate can raise.                             *)
(***************************************************************************)
\* largest max_scrolls tried
MaxScrolls == 4
\* largest page height
MaxHeight == 3

\* a variant of NoProgress that also stops when the page got shorter
NoGrowth(new_height, last) == new_height <= last

\* a loop without the break of lines 232-233
NeverStops(new_height, last) == FALSE

\* line 232: new_height == last_height
NoProgress(new_height, last) == new_height = last

InitScroll ==
    /\ IdleButScroll
    /\ max_scrolls \in 1..MaxScrolls
    /\ last_height = 0
    /\ measured = <<>>
    /\ spc = "scrolling"

\* lines 229-234: one iteration of the loop; the function returns at the break
\* of line 233 or when range(max_scrolls) is used up
ScrollStep ==
    /\ spc = "scrolling"
    /\ Len(measured) < max_scrolls
    /\ \E new_height \in 0..MaxHeight :
          /\ measured' = Append(measured, new_height)
          /\ IF NoProgress(new_height, last_height)
             THEN /\ spc' = "returned"
                  /\ UNCHANGED last_height
             ELSE /\ last_height' = new_height
                  /\ spc' = IF Len(measured') = max_scrolls
                            THEN "returned" ELSE "scrolling"
    /\ UNCHANGED <<max_scrolls, butScrollVars>>

\* lines 229-231: page.evaluate or page.wait_for_timeout raises
ScrollRaises ==
    /\ spc = "scrolling"
    /\ Len(measured) < max_scrolls
    /\ spc' = "raised"
    /\ UNCHANGED <<max_scrolls, last_height, measured, butScrollVars>>

NextScroll == ScrollStep \/ ScrollRaises

SpecScroll == InitScroll /\ [][NextScroll]_vars

(***************************************************************************)
(* Properties of scroll_page, checked under SpecScroll.                    *)
(***************************************************************************)
\* the height measured after the scroll before scroll k (0 before the first)
HeightBefore(k) == IF k = 1 THEN 0 ELSE measured[k - 1]

\* C15: whenever scroll_page returns, the last scroll left the page height
\* equal to the height measured after the previous scroll.
C15_ScrollToExhaustion ==
    (spc = "returned") =>
        /\ Len(measured) >= 1
        /\ measured[Len(measured)] = HeightBefore(Len(measured))

\* C15, amended: scroll_page makes at most max_scrolls scrolls, every scroll
\* but the last changed the page height, and when it returns after fewer
\* than max_scrolls scrolls the last scroll left the height unchanged.
C15_ScrollUntilStableOrCap ==
    (spc = "returned") =>
        /\ Len(measured) >= 1
        /\ Len(measured) <= max_scrolls
        /\ \A k \in 1..(Len(measured) - 1) : measured[k] # HeightBefore(k)
        /\ Len(measured) < max_scrolls =>
               measured[Len(measured)] = HeightBefore(Len(measured))

C15_Witness ==
    /\ spc = "returned"
    /\ Len(measured) = 2
    /\ max_scrolls = 3
    /\ measured[2] = measured[1]

(***************************************************************************)
(* Class extraction (extract_model_details, lines 467-500).                *)
(* The text after 'CLASSES (N)' is held as its sequence of words; a word   *)
(* is a record [kind, id]:                                                 *)
(*   "name"   matched by \b([a-z][a-z0-9_\-]{0,25})\b, two or more         *)
(*            characters, not in ui_noise; id tells the names apart        *)
(*   "noise"  matched by the pattern and a member of ui_noise              *)
(*   "short"  matched by the pattern, one character                        *)
(*   "other"  not matched by the pattern (capitals, digits first, ...)     *)
(***************************************************************************)
\* words before the run of class names in the sections tried
MaxHead == 2
\* length of the run of distinct class names in the sections tried
MaxRun == 12
\* largest declared count tried
MaxDeclared == 12

\* page_text has no 'CLASSES (N)'
NoDeclaration == -1

Word(kind, id) == [kind |-> kind, id |-> id]

\* line 480: re.findall keeps the words the pattern matches
potential_classes(section) == SelectSeq(section, LAMBDA w : w.kind # "other")

\* a variant of KeepsClass that does not test `cls not in classes`
KeepsClassAgain(cls, found) == cls.kind = "name"

\* line 493: len(cls) > 1 and cls not in ui_noise and cls not in classes
KeepsClass(cls, found) ==
    /\ cls.kind = "name"
    /\ \A i \in 1..Len(found) : found[i] # cls

RECURSIVE ClassLoop(_, _, _)
\* lines 492-496: the loop over potential_classes with its break
ClassLoop(candidates, found, n) ==
    IF candidates = <<>> THEN found
    ELSE IF KeepsClass(Head(candidates), found)
         THEN LET appended_to == Append(found, Head(candidates))
              IN  IF Len(appended_to) >= n THEN appended_to
                  ELSE ClassLoop(Tail(candidates), appended_to, n)
         ELSE ClassLoop(Tail(candidates), found, n)

\* lines 467-500: the pair (classes, class_count)
ExtractClasses(section, n) ==
    IF n = NoDeclaration THEN [classes |-> <<>>, class_count |-> 0]
    ELSE [classes     |-> Take(ClassLoop(potential_classes(section), <<>>, n),
                               Min(n, 10)),
          class_count |-> n]

\* the run of k distinct class names
NameRun(k) == [i \in 1..k |-> Word("name", i)]

HeadWords ==
    {Word("name", 1), Word("name", 2), Word("noise", 0), Word("short", 0),
     Word("other", 0)}

ClassSections ==
    {h \o NameRun(k) : h \in UNION {[1..m -> HeadWords] : m \in 0..MaxHead},
                       k \in 0..MaxRun}

InitClasses ==
    /\ IdleButClass
    /\ class_section \in ClassSections
    /\ declared \in {NoDeclaration} \cup 0..MaxDeclared
    /\ classes = <<>>
    /\ class_count = 0
    /\ cpc = "page_text"

\* lines 467-500 on the page text
ReadClasses ==
    /\ cpc = "page_text"
    /\ classes' = ExtractClasses(class_section, declared).classes
    /\ class_count' = ExtractClasses(class_section, declared).class_count
    /\ cpc' = "extracted"
    /\ UNCHANGED <<class_section, declared, butClassVars>>

NextClasses == ReadClasses

SpecClasses == InitClasses /\ [][NextClasses]_vars

(***************************************************************************)
(* Properties of the class extraction, checked under SpecClasses.          *)
(***************************************************************************)
\* the first position of word w in sequence s
FirstIndex(s, w) == CHOOSE i \in 1..Len(s) : s[i] = w /\ \A j \in 1..(i - 1) : s[j] # w

\* C16: with a declaration 'CLASSES (N)', classes has no duplicates, keeps
\* the first-seen order of the words of the window, holds no stoplist word
\* and at most min(N, 10) names; class_count is the declared N.
C16_ClassesList ==
    (cpc = "extracted" /\ declared # NoDeclaration) =>
        /\ NoDuplicates(classes)
        /\ \A i \in 1..Len(classes) :
               /\ classes[i].kind = "name"
               /\ \E k \in 1..Len(class_section) : class_section[k] = classes[i]
        /\ \A i, j \in 1..Len(classes) :
               i < j => FirstIndex(class_section, classes[i])
                            < FirstIndex(class_section, classes[j])
        /\ Len(classes) <= Min(declared, 10)
        /\ class_count = declared

C16_Witness ==
    /\ cpc = "extracted"
    /\ declared = 12
    /\ class_count = 12
    /\ Len(classes) = 10
    /\ \E k \in 1..Len(class_section) : class_section[k].kind = "noise"
    /\ \E k \in 3..Len(class_section) : class_section[k] = class_section[1]

(***************************************************************************)
(* model_identifier (extract_model_details, lines 242-243 and 510-515).    *)
(* A page URL is 'https://universe.roboflow.com' followed by '/' and a     *)
(* piece, for each piece of a sequence; a piece may be empty (a trailing   *)
(* slash, a doubled slash).                                                *)
(***************************************************************************)
\* pieces of the path of a page URL
MaxPieces == 4

HOST == "universe.roboflow.com"
NA == <<"N/A">>

\* the positions of '/model/' in the URL: a piece 'model' that is not the last
ModelMarks(pieces) == {i \in 1..(Len(pieces) - 1) : pieces[i] = "model"}

\* line 243: current_url.split('/model/')[0] if '/model/' in current_url
BaseUrl(pieces) ==
    IF ModelMarks(pieces) = {} THEN pieces
    ELSE LET first == CHOOSE i \in ModelMarks(pieces) :
                          \A j \in ModelMarks(pieces) : i <= j
         IN  SubSeq(pieces, 1, first - 1)

\* line 511: base_url.split('/')
url_parts(base) == <<"https:", "", HOST>> \o base

\* lines 512-515: model_id, held as <<workspace, project>>, or NA
ModelId(base) ==
    LET parts     == url_parts(base)
        workspace == IF Len(parts) >= 2 THEN parts[Len(parts) - 1] ELSE "N/A"
        project   == IF Len(parts) >= 1 THEN parts[Len(parts)] ELSE "N/A"
    IN  IF workspace # "N/A" /\ project # "N/A" THEN <<workspace, project>>
        ELSE NA

Pieces == {"ws", "proj", "model", "1", ""}

PageUrls == UNION {[1..k -> Pieces] : k \in 0..MaxPieces}

InitIdent ==
    /\ IdleButIdent
    /\ page_url \in PageUrls
    /\ base_url = <<>>
    /\ model_identifier = <<>>
    /\ upc = "page"

\* lines 242-243 and 510-515 on page.url
DeriveIdentifier ==
    /\ upc = "page"
    /\ base_url' = BaseUrl(page_url)
    /\ model_identifier' = ModelId(BaseUrl(page_url))
    /\ upc' = "derived"
    /\ UNCHANGED <<page_url, butIdentVars>>

NextIdent == DeriveIdentifier

SpecIdent == InitIdent /\ [][NextIdent]_vars

(***************************************************************************)
(* Properties of the identifier, checked under SpecIdent.                  *)
(***************************************************************************)
\* C17: model_identifier is '{workspace}/{project}' from the two trailing
\* path segments of the record's url, and the sentinel 'N/A' whenever one of
\* them is missing or empty; it never holds the host name or an empty part.
C17_IdentifierFromUrl ==
    (upc = "derived") =>
        /\ model_identifier =
               IF /\ Len(base_url) >= 2
                  /\ base_url[Len(base_url) - 1] # ""
                  /\ base_url[Len(base_url)] # ""
               THEN <<base_url[Len(base_url) - 1], base_url[Len(base_url)]>>
               ELSE NA
        /\ \A i \in 1..Len(model_identifier) :
               model_identifier[i] \notin {HOST, ""}

(***************************************************************************)
(* Navigation of extract_model_details (lines 242-361).  location is       *)
(* "base" when page.url is base_url (the overview of the project),         *)
(* "model_view" on a /model/{version} page of the project and "other" on   *)
(* any other page a click led to.                                          *)
(***************************************************************************)
\* len(tab_selectors)
NumTabSelectors == 4

Locations == {"base", "model_view", "other"}

InitExtract ==
    /\ IdleButExtract
    /\ location \in {"base", "model_view"}
    /\ reached_by = "none"
    /\ tab = 0
    /\ api_endpoint = FALSE
    /\ return_nav = "none"
    /\ read_location = "none"
    /\ epc = "find_model_view"

\* lines 260-271: a selector of model_selectors is visible and is clicked; the
\* click can leave the page where it is or lead to another page
ClickModelLink ==
    /\ epc = "find_model_view"
    /\ location = "base"
    /\ location' \in Locations
    /\ reached_by' = "click"
    /\ epc' = "load_snippets"
    /\ UNCHANGED <<tab, api_endpoint, return_nav, read_location, butExtractVars>>

\* lines 274-287: no link was clicked, a version number is in the text and
\* page.goto(model_url) returns, or raises and is swallowed at line 286
ConstructModelUrl ==
    /\ epc = "find_model_view"
    /\ location = "base"
    /\ \/ /\ location' = "model_view"
          /\ reached_by' = "constructed"
       \/ /\ location' \in {"base", "model_view"}
          /\ reached_by' = "construct_failed"
    /\ epc' = "load_snippets"
    /\ UNCHANGED <<tab, api_endpoint, return_nav, read_location, butExtractVars>>

\* lines 249-289: the page is a model view already, or no link is visible and
\* no version number is found
NoModelView ==
    /\ epc = "find_model_view"
    /\ epc' = "load_snippets"
    /\ UNCHANGED <<location, reached_by, tab, api_endpoint, return_nav,
                   read_location, butExtractVars>>

\* lines 292-302: wait, scroll_page, inner_text, content, extract_api_endpoint;
\* a raise of one of the page calls leaves extract_model_details
LoadSnippets ==
    /\ epc = "load_snippets"
    /\ \/ /\ api_endpoint' = TRUE
          /\ epc' = "return_overview"
       \/ /\ api_endpoint' = FALSE
          /\ epc' = "code_tabs"
       \/ /\ UNCHANGED api_endpoint
          /\ epc' = "raised"
    /\ UNCHANGED <<location, reached_by, tab, return_nav, read_location,
                   butExtractVars>>

\* lines 316-331: one selector of tab_selectors; the tab is missing, or the
\* click raises (continue), or it is clicked and the endpoint is looked for
TryCodeTab ==
    /\ epc = "code_tabs"
    /\ tab < NumTabSelectors
    /\ tab' = tab + 1
    /\ \E found \in BOOLEAN :
          /\ api_endpoint' = found
          /\ epc' = IF found \/ tab' = NumTabSelectors
                    THEN "return_overview" ELSE "code_tabs"
    /\ UNCHANGED <<location, reached_by, return_nav, read_location,
                   butExtractVars>>

\* lines 341-346: page.goto(base_url) if page.url != base_url; a raise of
\* page.goto is dropped by the except of line 345 and the page stays
ReturnToOverview ==
    /\ epc = "return_overview"
    /\ \/ /\ location = "base"
          /\ return_nav' = "not_needed"
          /\ UNCHANGED location
       \/ /\ location # "base"
          /\ return_nav' = "done"
          /\ location' = "base"
       \/ /\ location # "base"
          /\ return_nav' = "failed"
          /\ UNCHANGED location
    /\ epc' = "overview_tab"
    /\ UNCHANGED <<reached_by, tab, api_endpoint, read_location, butExtractVars>>

\* lines 349-355: the Overview tab is clicked if there is a visible one
SelectOverviewTab ==
    /\ epc = "overview_tab"
    /\ location' \in {location, "base"}
    /\ epc' = "scroll_overview"
    /\ UNCHANGED <<reached_by, tab, api_endpoint, return_nav, read_location,
                   butExtractVars>>

\* lines 357-361: scroll_page, inner_text, content
ScrollOverview ==
    /\ epc = "scroll_overview"
    /\ epc' \in {"read_fields", "raised"}
    /\ UNCHANGED <<location, reached_by, tab, api_endpoint, return_nav,
                   read_location, butExtractVars>>

\* lines 363-555: title, author, type, metrics, classes, tags and updated are
\* read from the page as it is
ReadFields ==
    /\ epc = "read_fields"
    /\ \/ /\ read_location' = location
          /\ epc' = "returned"
       \/ /\ UNCHANGED read_location
          /\ epc' = "raised"
    /\ UNCHANGED <<location, reached_by, tab, api_endpoint, return_nav,
                   butExtractVars>>

NextExtract ==
    \/ ClickModelLink
    \/ ConstructModelUrl
    \/ NoModelView
    \/ LoadSnippets
    \/ TryCodeTab
    \/ ReturnToOverview
    \/ SelectOverviewTab
    \/ ScrollOverview
    \/ ReadFields

SpecExtract == InitExtract /\ [][NextExtract]_vars

(***************************************************************************)
(* Properties of the navigation, checked under SpecExtract.                *)
(***************************************************************************)
\* C18: whatever sub-view was reached and whether or not the return
\* navigation succeeds, the page shows the overview (page.url is base_url)
\* when the descriptive fields are read.
C18_OverviewWhenFieldsRead ==
    (epc = "returned") => read_location = "base"

\* C18 holds in the executions whose return navigation does not fail
C18_OverviewUnlessReturnFails ==
    (epc = "returned" /\ return_nav # "failed") => read_location = "base"

(***************************************************************************)
(* main (lines 731-765).  A record is held by the three fields the summary *)
(* of main reads; a printed item is a record [kind, items, counts].        *)
(***************************************************************************)
\* records search_roboflow_models returns to main
MaxRecords == 2

Record(has_model, has_mAP, segmentation) ==
    [has_model |-> has_model, mAP |-> has_mAP, segmentation |-> segmentation]

Line(kind, items, counts) == [kind |-> kind, items |-> items, counts |-> counts]

\* json.dumps(records): the JSON array of the records; print("[]") prints
\* the array of no record
JsonDumps(records) == Line("json_array", records, <<>>)

\* lines 753-755: the number of records of rs whose field is set
CountIf(rs, field) == Cardinality({i \in 1..Len(rs) : rs[i][field]})

\* lines 751-760
Summary(rs) ==
    Line("summary", <<>>,
         <<Len(rs), CountIf(rs, "has_model"), CountIf(rs, "mAP"),
           CountIf(rs, "segmentation")>>)

\* line 765
NoDataCollected == Line("no_data", <<>>, <<>>)

\* lines 739-743
Banner == Line("banner", <<>>, <<>>)

\* a variant of Emit that prints the array in both modes
EmitJsonAlways(json, rs) == <<JsonDumps(rs)>>

\* lines 747-765: what main prints for the list rs
Emit(json, rs) ==
    IF rs # <<>>
    THEN IF json THEN <<JsonDumps(rs)>> ELSE <<Summary(rs)>>
    ELSE IF json THEN <<JsonDumps(<<>>)>> ELSE <<NoDataCollected>>

Records == {Record(m, a, g) : m \in BOOLEAN, a \in BOOLEAN, g \in BOOLEAN}

InitMain ==
    /\ IdleButMain
    /\ output_json \in BOOLEAN
    /\ results = <<>>
    /\ stdout = <<>>
    /\ mpc = "start"
    /\ exit_status = "running"
    /\ failure = "none"

\* lines 732-743: the environment is read and the banner is printed
MainStart ==
    /\ mpc = "start"
    /\ stdout' = IF output_json THEN stdout ELSE Append(stdout, Banner)
    /\ mpc' = "search"
    /\ UNCHANGED <<output_json, results, exit_status, failure, butMainVars>>

\* line 745: search_roboflow_models returns a list, after printing its
\* progress lines unless OUTPUT_JSON is true
SearchReturns ==
    /\ mpc = "search"
    /\ results' \in UNION {[1..k -> Records] : k \in 0..MaxRecords}
    /\ stdout' = IF output_json THEN stdout
                 ELSE Append(stdout, Line("progress", <<>>, <<>>))
    /\ mpc' = "print"
    /\ UNCHANGED <<output_json, exit_status, failure, butMainVars>>

\* what connect_browser and search_roboflow_models print before they raise
ProgressUnlessQuiet ==
    IF output_json THEN stdout ELSE Append(stdout, Line("progress", <<>>, <<>>))

\* lines 745, 579 and 47: chromium.launch() raises; nothing catches the
\* exception, the interpreter writes a traceback to stderr and exits with 1
LaunchFails ==
    /\ mpc = "search"
    /\ stdout' = ProgressUnlessQuiet
    /\ failure' = "launch"
    /\ exit_status' = "nonzero"
    /\ mpc' = "crashed"
    /\ UNCHANGED <<output_json, results, butMainVars>>

\* line 745: search_roboflow_models raises after the launch (the search page
\* does not load, a project page cannot be opened, ...) and main is left by
\* the exception in the same way
SearchRaises ==
    /\ mpc = "search"
    /\ stdout' = ProgressUnlessQuiet
    /\ failure' = "search"
    /\ exit_status' = "nonzero"
    /\ mpc' = "crashed"
    /\ UNCHANGED <<output_json, results, butMainVars>>

\* lines 747-765
MainPrint ==
    /\ mpc = "print"
    /\ stdout' = stdout \o Emit(output_json, results)
    /\ mpc' = "done"
    /\ exit_status' = "zero"
    /\ UNCHANGED <<output_json, results, failure, butMainVars>>

NextMain ==
    MainStart \/ SearchReturns \/ LaunchFails \/ SearchRaises \/ MainPrint

SpecMain == InitMain /\ [][NextMain]_vars

(***************************************************************************)
(* Properties of main, checked under SpecMain.                             *)
(***************************************************************************)
\* the JSON arrays printed
ArraysPrinted == SelectSeq(stdout, LAMBDA l : l.kind = "json_array")

\* C19: a session that ends with no record prints the empty JSON array in
\* whatever output mode; with one or more records in JSON mode main prints
\* the JSON array of the records.
C19_EmptyArrayOnNoRecords ==
    (mpc = "done") =>
        /\ results = <<>> => ArraysPrinted = <<JsonDumps(<<>>)>>
        /\ (results # <<>> /\ output_json) => ArraysPrinted = <<JsonDumps(results)>>

\* C19, amended: in JSON mode main prints the JSON array of the records and
\* nothing else, '[]' when there is none; in the other mode it prints no
\* JSON array, and its last line says that no data was collected when there
\* is no record.
C19_ArrayInJsonModeOnly ==
    (mpc = "done") =>
        /\ output_json => stdout = <<JsonDumps(results)>>
        /\ ~output_json =>
               /\ ArraysPrinted = <<>>
               /\ stdout[Len(stdout)] =
                      IF results = <<>> THEN NoDataCollected ELSE Summary(results)

C19_Witness ==
    /\ mpc = "done"
    /\ results = <<>>
    /\ output_json
    /\ stdout = <<JsonDumps(<<>>)>>

\* a structured error object was printed
ErrorObjectPrinted == \E i \in 1..Len(stdout) : stdout[i].kind = "error_object"

\* C21: when the browser fails to launch the search agent prints a
\* structured error object and exits non-zero, and no other condition makes
\* it exit non-zero.
C21_FatalErrorsOnly ==
    (mpc \in {"done", "crashed"}) =>
        /\ failure = "launch" => (exit_status = "nonzero" /\ ErrorObjectPrinted)
        /\ exit_status = "nonzero" => failure = "launch"

\* the part of C21 that holds: a failed launch ends the run with a non-zero
\* exit, and a run whose search returns exits with zero
C21_LaunchFailureExitsNonZero ==
    /\ failure = "launch" => exit_status = "nonzero"
    /\ mpc = "done" => exit_status = "zero"

(***************************************************************************)
(* More properties of the normaliser, checked under SpecInfer.             *)
(***************************************************************************)
\* the entries of a predictions array that carry x, y, width and height
SpatialEntriesOf(items) ==
    {i \in 1..Len(items) : items[i].isdict /\ Spatial \subseteq items[i].has}

\* C22: a predictions array in which any entry carries x/y/width/height is
\* normalised as spatial, each such entry keeping its bounding box, whichever
\* entry comes first.
C22_SpatialWhateverComesFirst ==
    (/\ ipc = "returned"
     /\ payload.kind = "dict"
     /\ "top" \notin payload.has
     /\ "predictions" \in payload.has
     /\ payload.predictions.kind = "list"
     /\ SpatialEntriesOf(payload.predictions.items) # {}) =>
        /\ result.success
        /\ Len(result.predictions)
               >= Cardinality(SpatialEntriesOf(payload.predictions.items))
        /\ \A j \in 1..Len(result.predictions) :
               "bbox" \in result.predictions[j].keys

\* the part of C22 that holds: when the first entry of the array carries
\* x, y, width and height and no 'top', every object entry keeps a bounding box
C22_SpatialWhenFirstIsSpatial ==
    (/\ ipc = "returned"
     /\ payload.kind = "dict"
     /\ "top" \notin payload.has
     /\ "predictions" \in payload.has
     /\ payload.predictions.kind = "list"
     /\ 1 \in SpatialEntriesOf(payload.predictions.items)
     /\ "top" \notin payload.predictions.items[1].has) =>
        /\ result.success
        /\ \A j \in 1..Len(result.predictions) :
               "bbox" \in result.predictions[j].keys

(***************************************************************************)
(* Title extraction (extract_model_details, lines 363-370) and clean_text  *)
(* (lines 213-223).  A text is held as its sequence of words, a word the   *)
(* code removed as the empty word "" (the spaces around it stay).          *)
(***************************************************************************)
\* words of the text of a title element
MaxTitleWords == 2

\* the members of the list noise of clean_text among the words tried
NoiseWords == {"Back"}

TitleWords == {"Back", "Cat", "Basketball"}

\* len(w)
WordLen(w) ==
    CASE w = "Cat"        -> 3
      [] w = "N/A"        -> 3
      [] w = "Back"       -> 4
      [] w = "Basketball" -> 10
      [] OTHER            -> 0

RECURSIVE StrLen(_)
\* len(text): the words and one space between two of them
StrLen(text) ==
    IF text = <<>> THEN 0
    ELSE IF Len(text) = 1 THEN WordLen(text[1])
    ELSE WordLen(Head(text)) + 1 + StrLen(Tail(text))

RECURSIVE Strip(_)
\* text.strip()
Strip(text) ==
    IF text = <<>> THEN <<>>
    ELSE IF Head(text) = "" THEN Strip(Tail(text))
    ELSE IF text[Len(text)] = "" THEN Strip(SubSeq(text, 1, Len(text) - 1))
    ELSE text

\* lines 213-223
clean_text(text) ==
    IF text = <<>> \/ text = NA THEN NA
    ELSE LET removed == [i \in 1..Len(text) |->
                            IF text[i] \in NoiseWords THEN "" ELSE text[i]]
         IN  IF Strip(removed) = <<>> THEN NA ELSE Strip(removed)

\* an element found by a selector, with its inner_text; or no element
Element(text) == [found |-> TRUE, text |-> text]
NoElement == [found |-> FALSE, text |-> <<>>]

RECURSIVE TitleLoop(_, _)
\* lines 365-370: the loop over the selectors, from the title held so far
TitleLoop(els, held) ==
    IF els = <<>> THEN held
    ELSE IF ~Head(els).found THEN TitleLoop(Tail(els), held)
    ELSE LET cleaned == clean_text(Head(els).text)
         IN  IF cleaned # NA /\ StrLen(cleaned) > 3 THEN cleaned
             ELSE TitleLoop(Tail(els), cleaned)

\* lines 364-370
ExtractTitle(els) == TitleLoop(els, NA)

TitleElements ==
    {NoElement} \cup
    {Element(t) : t \in UNION {[1..k -> TitleWords] : k \in 0..MaxTitleWords}}

InitTitle ==
    /\ IdleButTitle
    /\ title_els \in [1..3 -> TitleElements]
    /\ title = <<>>
    /\ tpc = "page"

\* lines 363-370 on the page
ReadTitle ==
    /\ tpc = "page"
    /\ title' = ExtractTitle(title_els)
    /\ tpc' = "extracted"
    /\ UNCHANGED <<title_els, butTitleVars>>

NextTitle == ReadTitle

SpecTitle == InitTitle /\ [][NextTitle]_vars

(***************************************************************************)
(* Properties of the title extraction, checked under SpecTitle.            *)
(***************************************************************************)
\* strategy i yields a non-empty cleaned text
Yields(i) == title_els[i].found /\ clean_text(title_els[i].text) # NA

\* C23: the title is the result of the first strategy that yields a
\* non-empty cleaned text, and 'N/A' only if no strategy yields one.
C23_FirstSuccessCascade ==
    (tpc = "extracted") =>
        IF \E i \in 1..3 : Yields(i)
        THEN LET first == CHOOSE i \in 1..3 :
                              Yields(i) /\ \A j \in 1..(i - 1) : ~Yields(j)
             IN  title = clean_text(title_els[first].text)
        ELSE title = NA

\* the part of C23 that holds: the title is 'N/A' when no strategy yields a
\* text, and the first text longer than 3 characters when there is one
C23_FirstLongText ==
    (tpc = "extracted") =>
        /\ (\A i \in 1..3 : ~Yields(i)) => title = NA
        /\ \A i \in 1..3 :
               (/\ Yields(i)
                /\ StrLen(clean_text(title_els[i].text)) > 3
                /\ \A j \in 1..(i - 1) :
                       ~(Yields(j) /\ StrLen(clean_text(title_els[j].text)) > 3))
               => title = clean_text(title_els[i].text)

(***************************************************************************)
(* The retry budget of open_model_with_retry, checked under Spec.          *)
(***************************************************************************)
\* the positions inside one call of open_model_with_retry
InOmr == pc \in {"omr_new_page", "omr_visit", "omr_except", "omr_returned"}

\* C24: for every failure pattern, open_model_with_retry makes at most
\* RETRY_COUNT attempts, an attempt is preceded by exactly one RETRY_WAIT
\* sleep per earlier attempt, and when it returns after k failed attempts the
\* k failures are followed by one success (k + 1 goto calls, the record
\* returned) or by exhaustion (k = RETRY_COUNT goto calls, None returned) and
\* min(k, RETRY_COUNT - 1) sleeps were made: none after the last allowed
\* attempt and none after a success.
C24_BoundedRetryFixedDelay ==
    InOmr =>
        /\ attempt \in 1..RETRY_COUNT
        /\ gotos <= RETRY_COUNT
        /\ pc \in {"omr_new_page", "omr_visit"} =>
              /\ sleeps = attempt - 1
              /\ failed = attempt - 1
              /\ gotos = attempt - 1
        /\ pc = "omr_returned" =>
              /\ sleeps = Min(failed, RETRY_COUNT - 1)
              /\ ret # None => (gotos = failed + 1 /\ failed < RETRY_COUNT)
              /\ ret = None => (gotos = failed /\ failed = RETRY_COUNT)

\* a call that returned None after RETRY_COUNT failed attempts and
\* RETRY_COUNT - 1 sleeps
C24_Witness ==
    /\ pc = "omr_returned"
    /\ ret = None
    /\ failed = RETRY_COUNT
    /\ sleeps = RETRY_COUNT - 1

(***************************************************************************)
(* Termination of scroll_page, checked under SpecScrollFair.               *)
(***************************************************************************)
\* the loop of lines 229-234 is sequential code: an iteration that can run
\* does run (each Playwright call of it returns or raises)
SpecScrollFair == SpecScroll /\ WF_vars(NextScroll)

\* no scroll was made beyond max_scrolls, and none after a scroll that left
\* the height unchanged
ScrollsBounded ==
    /\ Len(measured) <= max_scrolls
    /\ \A k \in 1..(Len(measured) - 1) : measured[k] # HeightBefore(k)

\* C25: scroll_page terminates on every page, also on one whose height grows
\* after every scroll: it makes at most max_scrolls scrolls, makes no scroll
\* after the first one that leaves the height unchanged, and the call is
\* eventually over.
C25_ScrollTerminates == []ScrollsBounded /\ <>(spc # "scrolling")

\* a call that returned after max_scrolls scrolls on a page that grew after
\* every one of them
C25_Witness ==
    /\ spc = "returned"
    /\ max_scrolls >= 3
    /\ Len(measured) = max_scrolls
    /\ \A k \in 1..Len(measured) : measured[k] > HeightBefore(k)

(***************************************************************************)
(* The 'Has a Model' filter cascade (search_roboflow_models, lines         *)
(* 645-671), as two runs on the same page: run TRUE has OUTPUT_JSON=true   *)
(* (quiet_mode), run FALSE has not.  filter_page[i] is what selector i of  *)
(* has_model_selectors meets:                                              *)
(*   "none"     query_selector returns None                                *)
(*   "hidden"   the element is not visible                                 *)
(*   "visible"  the element is visible and click() returns                 *)
(*   "raises"   query_selector, is_visible or click raises                 *)
(***************************************************************************)
\* lines 650-656: the length of has_model_selectors
NumFilterSelectors == 5

SelectorOutcomes == {"none", "hidden", "visible", "raises"}

\* lines 660-662: the element is found and visible, and click() is called
Clicked(o) == o = "visible"

\* lines 664-666: the break is inside `if not quiet_mode:`
BreakAfterClick(quiet_mode) == ~quiet_mode

InitFilter ==
    /\ IdleButFilter
    /\ filter_page \in [1..NumFilterSelectors -> SelectorOutcomes]
    /\ fsel = [quiet_mode \in BOOLEAN |-> 1]
    /\ clicks = [quiet_mode \in BOOLEAN |-> <<>>]
    /\ fpc = [quiet_mode \in BOOLEAN |-> "cascade"]

\* lines 658-668: one iteration of the loop over has_model_selectors in the
\* run with the given quiet_mode
TrySelector(quiet_mode) ==
    /\ fpc[quiet_mode] = "cascade"
    /\ LET o == filter_page[fsel[quiet_mode]]
       IN  /\ clicks' = [clicks EXCEPT ![quiet_mode] =
                            IF Clicked(o) THEN Append(@, fsel[quiet_mode]) ELSE @]
           /\ IF \/ Clicked(o) /\ BreakAfterClick(quiet_mode)
                 \/ fsel[quiet_mode] = NumFilterSelectors
              THEN /\ fpc' = [fpc EXCEPT ![quiet_mode] = "filtered"]
                   /\ UNCHANGED fsel
              ELSE /\ fsel' = [fsel EXCEPT ![quiet_mode] = @ + 1]
                   /\ UNCHANGED fpc
    /\ UNCHANGED <<filter_page, butFilterVars>>

NextFilter == \E quiet_mode \in BOOLEAN : TrySelector(quiet_mode)

SpecFilter == InitFilter /\ [][NextFilter]_vars

(***************************************************************************)
(* Properties of the filter cascade, checked under SpecFilter.             *)
(***************************************************************************)
BothFiltered == fpc[TRUE] = "filtered" /\ fpc[FALSE] = "filtered"

\* C26: on the same page the run with OUTPUT_JSON=true and the run without
\* it click the same filter selectors, and the cascade stops after the first
\* visible one is clicked.
C26_SameClicksQuietOrNot ==
    BothFiltered =>
        /\ clicks[TRUE] = clicks[FALSE]
        /\ Len(clicks[TRUE]) <= 1

\* what does hold: the run without OUTPUT_JSON stops after its first click,
\* and the run with it makes that click first and then goes on to click every
\* other visible selector
C26_QuietClicksEveryVisible ==
    BothFiltered =>
        /\ Len(clicks[FALSE]) <= 1
        /\ clicks[FALSE] = SubSeq(clicks[TRUE], 1, Len(clicks[FALSE]))
        /\ Len(clicks[TRUE]) =
              Cardinality({i \in 1..NumFilterSelectors : Clicked(filter_page[i])})

=============================================================================
